---- MODULE Spec2Model ----
(***************************************************************************)
(* ButterflyNetwork.__init__ of meshes/butterfly.py as a state machine.    *)
(*                                                                         *)
(* The constructor is followed statement by statement: the argument        *)
(* checks, the topology loop that fills perm, the call of the container's  *)
(* constructor, the recursive block-wise decomposition configButterfly     *)
(* (one action per invocation, the pending invocations kept on a stack)    *)
(* and the layer loop that turns Dij into p_crossing and phi_out.          *)
(*                                                                         *)
(* Complex amplitudes and phases are symbolic: an entry of Dij names the   *)
(* invocation that wrote it and the index k of the singular value, an      *)
(* entry of phi_out names the layer and the crossing port it is the        *)
(* residual phase of.  Index arithmetic, numpy slicing, broadcasting and   *)
(* fancy indexing are computed as numpy computes them.                     *)
(*                                                                         *)
(* numpy arrays are functions on 0..n-1; Python's None is the empty tuple  *)
(* and a present value x is the 1-tuple <<x>>.                             *)
(***************************************************************************)
EXTENDS Integers, Sequences, FiniteSets, TLC

\* The mesh sizes tried are 1 .. 2^MaxK.
MaxK == 3

VARIABLES arg, pc, err, N, lens, shifts, perm, i, s,
          self_init, self_perm, self_p_splitter, p_crossing, phi_out,
          Dij, stack, calls, discovery, p1, p2, absorbed, xcalls

vars == <<arg, pc, err, N, lens, shifts, perm, i, s,
          self_init, self_perm, self_p_splitter, p_crossing, phi_out,
          Dij, stack, calls, discovery, p1, p2, absorbed, xcalls>>

----------------------------------------------------------------------------
\* Python and numpy primitives.

None == <<>>

Some(x) == <<x>>

Min(a, b) == IF a < b THEN a ELSE b

Max(a, b) == IF a < b THEN b ELSE a

RECURSIVE Pow2(_)
Pow2(k) == IF k = 0 THEN 1 ELSE 2 * Pow2(k - 1)

MaxN == Pow2(MaxK)

\* Number of elements of an array.
Size(v) == Cardinality(DOMAIN v)

\* A Python scalar seen by numpy as a one-element array.
Scalar(x) == [k \in 0..0 |-> x]

\* np.arange(lo, hi, step), step > 0.
NpArange(lo, hi, step) ==
    [k \in 0..((hi - lo + step - 1) \div step) - 1 |-> lo + k * step]

\* np.outer(u, v) of two flat arrays: a Size(u) x Size(v) matrix.
NpOuter(u, v) == [r \in DOMAIN u |-> [c \in DOMAIN v |-> u[r] * v[c]]]

\* m.flatten() of a matrix, row-major.
NpFlatten(m) ==
    LET rows == Size(m)
        cols == Size(m[0])
    IN  [q \in 0..(rows * cols - 1) |-> m[q \div cols][q % cols]]

\* A + B of two matrices with numpy broadcasting (an axis of length 1 stretches).
NpAdd(A, B) ==
    LET rA == Size(A)
        cA == Size(A[0])
        rB == Size(B)
        cB == Size(B[0])
    IN  [r \in 0..(Max(rA, rB) - 1) |->
           [c \in 0..(Max(cA, cB) - 1) |->
              A[IF rA = 1 THEN 0 ELSE r][IF cA = 1 THEN 0 ELSE c]
            + B[IF rB = 1 THEN 0 ELSE r][IF cB = 1 THEN 0 ELSE c]]]

\* x[p]: fancy indexing of the array x by the index array p.
Take(x, p) == [q \in DOMAIN p |-> x[p[q]]]

\* np.binary_repr(x), most significant digit first, x > 0.
RECURSIVE BinaryRepr(_)
BinaryRepr(x) == IF x < 2 THEN <<x>> ELSE Append(BinaryRepr(x \div 2), x % 2)

\* s[::-1]
Reversed(str) == [k \in 1..Len(str) |-> str[Len(str) + 1 - k]]

\* s.index(d): the 0-based position of the first d in s.
IndexOf(str, d) ==
    (CHOOSE k \in 1..Len(str) : str[k] = d /\ \A h \in 1..(k - 1) : str[h] # d) - 1

\* int(np.log2(n)), n >= 1.
RECURSIVE IntLog2(_)
IntLog2(n) == IF n < 2 THEN 0 ELSE 1 + IntLog2(n \div 2)

\* l[lo:hi] = vals on a Python list (the list may change length).
ListSliceAssign(l, lo, hi, vals) ==
    LET n == Size(l)
        a == Min(lo, n)
        b == Max(a, Min(hi, n))
        m == Size(vals)
    IN  [k \in 0..(n - (b - a) + m - 1) |->
           IF k < a THEN l[k]
           ELSE IF k < a + m THEN vals[k - a]
           ELSE l[k - m + (b - a)]]

----------------------------------------------------------------------------
\* The butterfly permutations (lines 46-48 and 74-76).

\* np.outer(np.arange(s),1)+np.array([[0,s]])
PairRows(st) ==
    NpAdd(NpOuter(NpArange(0, st, 1), Scalar(1)), [r \in 0..0 |-> [c \in 0..1 |-> c * st]])

\* np.outer(1,np.arange(0,2*s,2))+np.array([[0],[1]])
PortRows(st) ==
    NpAdd(NpOuter(Scalar(1), NpArange(0, 2 * st, 2)), [r \in 0..1 |-> [c \in 0..0 |-> r]])

\* (np.outer(1, x) + np.outer(np.arange(0, N, 2*s), 1)).flatten()
Tile(n, st, x) ==
    NpFlatten(NpAdd(NpOuter(Scalar(1), NpFlatten(x)),
                    NpOuter(NpArange(0, n, 2 * st), Scalar(1))))

\* Line 46: the stride computed in the constructor's topology loop.
CtorStride(l) == Pow2(IndexOf(Reversed(BinaryRepr(l + 1)), 1))

\* CtorPerms with the two permutations stored in the other order.
CtorPerms_Swapped(n, l) ==
    LET st == CtorStride(l)
    IN  [k \in 0..1 |-> Some(Tile(n, st, IF k = 0 THEN PortRows(st) ELSE PairRows(st)))]

\* Lines 47-48: the two permutations stored at perm[i:i+2].
CtorPerms(n, l) ==
    LET st == CtorStride(l)
    IN  [k \in 0..1 |-> Some(Tile(n, st, IF k = 0 THEN PairRows(st) ELSE PortRows(st)))]

\* SolverStride without the [::-1]: the index of the first 1 from the left.
SolverStride_Unreversed(l) == Pow2(IndexOf(BinaryRepr(l + 1), 1))

\* Line 74: the stride computed in the layer loop.
SolverStride(l) == Pow2(IndexOf(Reversed(BinaryRepr(l + 1)), 1))

\* SolverP1 taking the second array of the pair.
SolverP1_Swapped(n, l) == Tile(n, SolverStride(l), PortRows(SolverStride(l)))

\* Lines 75-76: p1.
SolverP1(n, l) == Tile(n, SolverStride(l), PairRows(SolverStride(l)))

\* SolverP2 taking the first array of the pair: phi_out[p1] undone by [p1].
SolverP2_AsP1(n, l) == Tile(n, SolverStride(l), PairRows(SolverStride(l)))

\* Lines 75-76: p2.
SolverP2(n, l) == Tile(n, SolverStride(l), PortRows(SolverStride(l)))

----------------------------------------------------------------------------
\* The arguments of a call of the constructor.  mode says which of N and M the
\* caller gives; M is known by its length; p_splitter is the default 0. or an
\* array with a distinct imperfection per layer.

SplitterInputs(size) ==
    { [l \in 0..(size - 2) |-> 0], [l \in 0..(size - 2) |-> l + 1] }

ArgsOfSize(size) ==
    { [N |-> IF mode \in {"N", "both"} THEN Some(size) ELSE None,
       M |-> IF mode \in {"M", "both"} THEN Some(size) ELSE None,
       phi_pos |-> pp, X |-> x, p_splitter |-> ps] :
         mode \in {"N", "M", "both", "neither"},
         pp \in {"out", "in"}, x \in {"MZICrossing", "Crossing"},
         ps \in SplitterInputs(size) }

Args(sizes) == UNION { ArgsOfSize(size) : size \in sizes }

InitWith(sizes) ==
    /\ arg \in Args(sizes)
    /\ pc = "entry"
    /\ err = None
    /\ N = arg.N
    /\ lens = None
    /\ shifts = None
    /\ perm = None
    /\ i = 0
    /\ s = None
    /\ self_init = FALSE
    /\ self_perm = None
    /\ self_p_splitter = None
    /\ p_crossing = None
    /\ phi_out = None
    /\ Dij = None
    /\ stack = <<>>
    /\ calls = {}
    /\ discovery = <<>>
    /\ p1 = None
    /\ p2 = None
    /\ absorbed = <<>>
    /\ xcalls = <<>>

Init == InitWith(1..MaxN)

\* Leaving the constructor with an exception.
Raise(e) ==
    /\ pc' = "error"
    /\ err' = Some(e)

\* Lines 37-41: the assertions and N = (N if N else len(M)).
ArgsOk ==
    /\ (arg.N = None) # (arg.M = None)
    /\ arg.phi_pos = "out"
    /\ LET n == IF arg.N # None THEN arg.N[1] ELSE arg.M[1]
       IN  n = Pow2(IntLog2(n))

ArgChecks ==
    /\ pc = "entry"
    /\ IF ArgsOk
       THEN /\ pc' = "lists"
            /\ N' = (IF arg.N # None THEN arg.N ELSE arg.M)
            /\ err' = err
       ELSE /\ Raise("AssertionError")
            /\ N' = N
    /\ UNCHANGED <<s, arg, lens, shifts, perm, i, self_init, self_perm, self_p_splitter,
                   p_crossing, phi_out, Dij, stack, calls, discovery, p1, p2, absorbed, xcalls>>

\* Line 44, and the start of the loop of line 45.
SetupLists ==
    /\ pc = "lists"
    /\ lens' = [l \in 0..(N[1] - 2) |-> N[1] \div 2]
    /\ shifts' = [l \in 0..(N[1] - 2) |-> 0]
    /\ perm' = [l \in 0..(N[1] - 1) |-> None]
    /\ i' = 1
    /\ pc' = "topology"
    /\ UNCHANGED <<s, arg, err, N, self_init, self_perm, self_p_splitter,
                   p_crossing, phi_out, Dij, stack, calls, discovery, p1, p2, absorbed, xcalls>>

\* Lines 45-48: one pass of for i in range(1, N-1, 2).
TopologyStep ==
    /\ pc = "topology"
    /\ i < N[1] - 1
    /\ s' = Some(CtorStride(i))
    /\ perm' = ListSliceAssign(perm, i, i + 2, CtorPerms(N[1], i))
    /\ i' = i + 2
    /\ UNCHANGED <<arg, pc, err, N, lens, shifts, self_init, self_perm, self_p_splitter,
                   p_crossing, phi_out, Dij, stack, calls, discovery, p1, p2, absorbed, xcalls>>

\* Lines 50-51 and 54: the container's constructor receives perm and p_splitter
\* and owns p_crossing and phi_out (modes tagged as the external bias, layer -1).
SuperInit ==
    /\ pc = "topology"
    /\ i >= N[1] - 1
    /\ self_init' = TRUE
    /\ self_perm' = Some(perm)
    /\ self_p_splitter' = Some(arg.p_splitter)
    /\ p_crossing' = Some([l \in 0..(N[1] - 2) |-> [j \in 0..(N[1] \div 2 - 1) |-> None]])
    /\ phi_out' = Some([m \in 0..(N[1] - 1) |-> [layer |-> -1, port |-> m]])
    /\ pc' = (IF arg.M # None THEN "config" ELSE "done")
    /\ UNCHANGED <<s, arg, err, N, lens, shifts, perm, i,
                   Dij, stack, calls, discovery, p1, p2, absorbed, xcalls>>

----------------------------------------------------------------------------
\* The recursive decomposition (lines 55-69).
\*
\* An entry Dij[:, :, l, j] is the sequence of the 2x2 amplitude blocks written
\* to it (the last one is its value, the empty sequence is np.zeros) and the
\* pair of phases multiplied into it by line 78.  A block names the matrix U
\* of the invocation that wrote it (its path from M) and the index k on the
\* diagonal of D11, D22 and the two off-diagonal products.

ZeroEntry == [hist |-> <<>>, phase |-> None]

\* A numpy view of Dij[:, :, l0 : l0+ll, c0 : c0+cl].
View(l0, ll, c0, cl) == [l0 |-> l0, ll |-> ll, c0 |-> c0, cl |-> cl]

\* v[:, :, :h, ...] and v[:, :, h:, ...] on the layer axis (slices clamp).
LayersTo(v, h) == [v EXCEPT !.ll = Min(h, v.ll)]

\* LayersFrom without the move of the view's first layer.
LayersFrom_NoOffset(v, h) == [v EXCEPT !.ll = v.ll - Min(h, v.ll)]

LayersFrom(v, h) == [v EXCEPT !.l0 = v.l0 + Min(h, v.ll), !.ll = v.ll - Min(h, v.ll)]

\* v[..., :h] and v[..., h:] on the crossing axis.
CrossingsTo(v, h) == [v EXCEPT !.cl = Min(h, v.cl)]

CrossingsFrom(v, h) == [v EXCEPT !.c0 = v.c0 + Min(h, v.cl), !.cl = v.cl - Min(h, v.cl)]

\* BlockRow writing the first row of the view.
BlockRow_First(n) == 0

\* Line 63-64: the layer row, within the view, that an invocation on an n x n U writes.
BlockRow(n) == n \div 2 - 1

\* SubView with [:n//4] for all four calls: W2 and V2 share the crossings of W1 and V1.
SubView_SharedCrossings(v, n, which) ==
    IF which \in {"W1", "W2"}
    THEN [v EXCEPT !.ll = Min(n \div 2, v.ll), !.cl = Min(n \div 4, v.cl)]
    ELSE [v EXCEPT !.l0 = v.l0 + Min(n \div 2, v.ll), !.ll = v.ll - Min(n \div 2, v.ll),
                   !.cl = Min(n \div 4, v.cl)]

\* Lines 65-66: the views handed to the recursive calls on W1, W2, V1, V2.
SubView(v, n, which) ==
    CASE which = "W1" -> CrossingsTo(LayersTo(v, n \div 2), n \div 4)
      [] which = "W2" -> CrossingsFrom(LayersTo(v, n \div 2), n \div 4)
      [] which = "V1" -> CrossingsTo(LayersFrom(v, n \div 2), n \div 4)
      [] which = "V2" -> CrossingsFrom(LayersFrom(v, n \div 2), n \div 4)

\* Lines 61-62: W1 and V1 are the bases of U11 = U[:n/2, :n/2], W2 and V2 those of
\* U22 = U[n/2:, n/2:]; a is the first of the n modes U acts on.
SubModes(a, n, which) == IF which \in {"W1", "V1"} THEN a ELSE a + n \div 2

\* Lines 65-66: the four recursive calls, in the order they are made.
SubCalls(f) ==
    [q \in 1..4 |->
       LET which == <<"W1", "W2", "V1", "V2">>[q]
       IN  [U |-> Append(f.U, which), n |-> f.n \div 2,
            a |-> SubModes(f.a, f.n, which), view |-> SubView(f.view, f.n, which)]]

\* Lines 63-64 and 68: the (layer, crossing) entries of the whole tensor that the
\* invocation f assigns, or the exception numpy raises.
WriteError(f) ==
    IF f.n > 2
    THEN IF BlockRow(f.n) >= f.view.ll THEN "IndexError"
         ELSE IF f.view.cl # f.n \div 2 /\ f.n \div 2 # 1 THEN "ValueError"
         ELSE "none"
    ELSE IF f.view.ll < 1 \/ f.view.cl < 1 THEN "IndexError" ELSE "none"

WriteLayer(f) == f.view.l0 + (IF f.n > 2 THEN BlockRow(f.n) ELSE 0)

WriteCrossings(f) ==
    IF f.n > 2 THEN f.view.c0 .. (f.view.c0 + f.view.cl - 1) ELSE {f.view.c0}

Written(D, f) ==
    [l \in DOMAIN D |-> [j \in DOMAIN D[l] |->
       IF l = WriteLayer(f) /\ j \in WriteCrossings(f)
       THEN [D[l][j] EXCEPT !.hist = Append(@, [U |-> f.U, k |-> j - f.view.c0])]
       ELSE D[l][j]]]

\* Lines 55 and 69: the crossing type is checked, Dij is allocated and
\* configButterfly(M, Dij) is called.
ConfigStart ==
    /\ pc = "config"
    /\ IF arg.X = "MZICrossing"
       THEN /\ Dij' = Some([l \in 0..(N[1] - 2) |-> [j \in 0..(N[1] \div 2 - 1) |-> ZeroEntry]])
            /\ stack' = <<[U |-> <<"M">>, n |-> arg.M[1], a |-> 0,
                           view |-> View(0, N[1] - 1, 0, N[1] \div 2)]>>
            /\ pc' = "decompose"
            /\ err' = err
       ELSE /\ Raise("AssertionError")
            /\ UNCHANGED <<Dij, stack>>
    /\ UNCHANGED <<s, arg, N, lens, shifts, perm, i, self_init, self_perm, self_p_splitter,
                   p_crossing, phi_out, calls, discovery, p1, p2, absorbed, xcalls>>

\* The body of one invocation of configButterfly (lines 59-68): the pending
\* invocation at position q runs its own assignments and its four calls
\* become pending in its place.  calls is the set of the invocations that ran,
\* each with the modes, the layer and the crossings it wrote.
Invoke(q) ==
    LET f == stack[q]
    IN  /\ pc = "decompose"
        /\ IF WriteError(f) = "none"
           THEN /\ Dij' = Some(Written(Dij[1], f))
                /\ calls' = calls \cup {[U |-> f.U, n |-> f.n, a |-> f.a,
                                           layer |-> WriteLayer(f),
                                           crossings |-> WriteCrossings(f)]}
                /\ stack' = SubSeq(stack, 1, q - 1)
                            \o (IF f.n > 2 THEN SubCalls(f) ELSE <<>>)
                            \o SubSeq(stack, q + 1, Len(stack))
                /\ UNCHANGED <<pc, err>>
           ELSE /\ Raise(WriteError(f))
                /\ UNCHANGED <<Dij, calls, stack>>
        /\ UNCHANGED <<s, arg, N, lens, shifts, perm, i, self_init, self_perm,
                       self_p_splitter, p_crossing, phi_out, p1, p2, absorbed, xcalls>>

\* The layers in the order in which they are first written, f running next.
Discovered(f) ==
    IF WriteError(f) = "none" /\ \A k \in 1..Len(discovery) : discovery[k] # WriteLayer(f)
    THEN Append(discovery, WriteLayer(f))
    ELSE discovery

\* Python runs the calls depth first: the innermost pending call is next.
DecomposeStep ==
    /\ stack # <<>>
    /\ Invoke(1)
    /\ discovery' = Discovered(stack[1])

\* The four branches of every invocation run in any order (section 5 of the
\* design: sibling branches may run concurrently).
\* The order of the first writes is recorded for the depth-first run only.
DecomposeAny ==
    /\ \E q \in 1..Len(stack) : Invoke(q)
    /\ UNCHANGED discovery

----------------------------------------------------------------------------
\* The layer loop (lines 72-80).

\* Line 72 and the start of the loop of line 73.
SolverStart ==
    /\ pc = "decompose"
    /\ stack = <<>>
    /\ i' = 0
    /\ pc' = "solve"
    /\ UNCHANGED <<s, arg, err, N, lens, shifts, perm, self_init, self_perm, self_p_splitter,
                   p_crossing, phi_out, Dij, stack, calls, discovery, p1, p2, absorbed, xcalls>>

\* x[start::2]
EveryOther(x, start) == [j \in 0..((Size(x) - start + 1) \div 2 - 1) |-> x[start + 2 * j]]

\* Line 78: the phases of the two ports of every crossing go into layer l of Dij.
Absorb(D, l, phi) ==
    [D EXCEPT ![l] = [j \in DOMAIN D[l] |->
       [D[l][j] EXCEPT !.phase = Some(<<EveryOther(phi, 0)[j], EveryOther(phi, 1)[j]>>)]]]

\* Line 79: X.Tsolve((Dij[0,0,i], Dij[0,1,i]), 'T1:'); line 80: X.T(p_crossing[i]).
\* Each call of the crossing is logged with the layer whose data it is given and
\* the splitter imperfections passed to it (None: the argument is not passed).
TsolveCall(l) == [fn |-> "Tsolve", layer |-> l, mode |-> "T1:", p_splitter |-> None]

TCall(l) == [fn |-> "T", layer |-> l, mode |-> "", p_splitter |-> None]

\* Line 80: np.angle(Dij[:, :, i]/T)[:, 0, :].T.flatten(): entry 2j+a is the
\* residual phase of port a of crossing j of layer l.
Residual(n, l) == [q \in 0..(n - 1) |-> [layer |-> l, port |-> q]]

\* Lines 74-80: one pass of for i in range(N-1).
SolveLayer ==
    /\ pc = "solve"
    /\ i < N[1] - 1
    /\ LET q1 == SolverP1(N[1], i)
           q2 == SolverP2(N[1], i)
           phi1 == Take(phi_out[1], q1)
       IN  /\ s' = Some(SolverStride(i))
           /\ p1' = Some(q1)
           /\ p2' = Some(q2)
           /\ absorbed' = Append(absorbed, phi1)
           /\ Dij' = Some(Absorb(Dij[1], i, phi1))
           /\ xcalls' = xcalls \o <<TsolveCall(i), TCall(i)>>
           /\ p_crossing' = Some([p_crossing[1] EXCEPT ![i] =
                                    [j \in DOMAIN @ |-> Some([layer |-> i, crossing |-> j])]])
           /\ phi_out' = Some(Take(Residual(N[1], i), q2))
    /\ i' = i + 1
    /\ UNCHANGED <<arg, pc, err, N, lens, shifts, perm, self_init, self_perm,
                   self_p_splitter, stack, calls, discovery>>

\* The loop of line 73 is over and the constructor returns.
Finish ==
    /\ pc = "solve"
    /\ i >= N[1] - 1
    /\ pc' = "done"
    /\ UNCHANGED <<s, arg, err, N, lens, shifts, perm, i, self_init, self_perm, self_p_splitter,
                   p_crossing, phi_out, Dij, stack, calls, discovery, p1, p2, absorbed, xcalls>>

Next ==
    \/ ArgChecks
    \/ SetupLists
    \/ TopologyStep
    \/ SuperInit
    \/ ConfigStart
    \/ DecomposeStep
    \/ SolverStart
    \/ SolveLayer
    \/ Finish

Spec == Init /\ [][Next]_vars

\* The same constructor with the branches of the decomposition run in any order.
\* The pending invocations of an N x N target interleave in a number of ways
\* that grows as the fourth power per level, so the sizes stop one level earlier.
InitAny == InitWith(1..Pow2(MaxK - 1))

NextAny ==
    \/ ArgChecks
    \/ SetupLists
    \/ TopologyStep
    \/ SuperInit
    \/ ConfigStart
    \/ DecomposeAny
    \/ SolverStart
    \/ SolveLayer
    \/ Finish

SpecAny == InitAny /\ [][NextAny]_vars

----------------------------------------------------------------------------
\* What the properties below speak of.

\* The layer loop has just run its body for layer i - 1.
LayerSolved == pc \in {"solve", "done"} /\ p1 # None

JustSolved == i - 1

IsPow2(n) == n >= 1 /\ n = Pow2(IntLog2(n))

\* 2^v, v the index of the lowest set bit of l + 1: the largest power of two
\* that divides l + 1.
LowBitStride(l) ==
    CHOOSE st \in 1..(l + 1) : IsPow2(st) /\ (l + 1) % st = 0 /\ ((l + 1) \div st) % 2 = 1

Identity(n) == [m \in 0..(n - 1) |-> m]

IsBijection(x, n) == DOMAIN x = 0..(n - 1) /\ { x[q] : q \in DOMAIN x } = 0..(n - 1)

\* The size a call of the constructor asks for, when exactly one of N and M is given.
AskedSize == IF arg.N # None THEN arg.N[1] ELSE arg.M[1]

OneOfNAndM == (arg.N = None) # (arg.M = None)

\* Nothing of the topology, the container, the decomposition or the layer loop
\* has happened.
NothingBuilt ==
    /\ lens = None /\ shifts = None /\ perm = None
    /\ ~self_init /\ self_perm = None /\ self_p_splitter = None
    /\ p_crossing = None /\ phi_out = None
    /\ Dij = None /\ stack = <<>> /\ calls = {} /\ discovery = <<>> /\ xcalls = <<>>

IsTsolve(c) == c.fn = "Tsolve"

\* The layers in the order in which the layer loop solves them.
SolveOrder ==
    LET ts == SelectSeq(xcalls, IsTsolve) IN [k \in 1..Len(ts) |-> ts[k].layer]

\* The decomposition has run to its end.
Decomposed == Dij # None /\ stack = <<>> /\ pc \in {"decompose", "solve", "done"}

\* Dij as the depth-first order of the calls leaves it.
RECURSIVE DepthFirst(_, _)
DepthFirst(D, pending) ==
    IF pending = <<>> THEN D
    ELSE LET f == Head(pending)
         IN  DepthFirst(Written(D, f),
                        (IF f.n > 2 THEN SubCalls(f) ELSE <<>>) \o Tail(pending))

\* The amplitude blocks of Dij, without the phases of line 78.
Blocks(D) == [l \in DOMAIN D |-> [j \in DOMAIN D[l] |-> D[l][j].hist]]

----------------------------------------------------------------------------
\* C2: every layer has N/2 crossings, there are N-1 layers, the stride of layer
\* i is the largest power of two dividing i+1 (1,2,1 for N = 4), and p1 puts
\* modes 2sb+k and 2sb+k+s on positions 2sb+2k and 2sb+2k+1 of block b.
C2_StrideAndPairing ==
    LayerSolved =>
      LET l == JustSolved
          n == N[1]
          st == s[1]
      IN  /\ Size(lens) = n - 1 /\ lens[l] = n \div 2
          /\ Size(p_crossing[1]) = n - 1 /\ Size(p_crossing[1][l]) = n \div 2
          /\ st = LowBitStride(l)
          /\ (n = 4 => st = <<1, 2, 1>>[l + 1])
          /\ Size(p1[1]) = n
          /\ \A b \in 0..(n \div (2 * st) - 1) : \A k \in 0..(st - 1) :
                /\ p1[1][2 * st * b + 2 * k] = 2 * st * b + k
                /\ p1[1][2 * st * b + 2 * k + 1] = 2 * st * b + k + st

C2_Witness == pc = "solve" /\ N = Some(8) /\ i = 4 /\ s = Some(4)

\* C3 as stated: layer 0 has stride 1 and the last layer, N-2, has stride N/2.
C3_LastLayerMaxStride ==
    LayerSolved =>
      /\ (JustSolved = 0 => s[1] = 1)
      /\ (JustSolved = N[1] - 2 => s[1] = N[1] \div 2)

\* C3 amended: layer 0 has stride 1, no stride exceeds N/2, the stride N/2 is
\* that of the middle layer N/2-1, and the last layer N-2 has stride 1.
C3_MiddleLayerMaxStride ==
    LayerSolved =>
      /\ (JustSolved = 0 => s[1] = 1)
      /\ s[1] <= N[1] \div 2
      /\ (s[1] = N[1] \div 2 <=> JustSolved = N[1] \div 2 - 1)
      /\ (JustSolved = N[1] - 2 => s[1] = 1)
      /\ p1[1][1] - p1[1][0] = s[1]

C3_Witness == pc = "solve" /\ N[1] >= 4 /\ i = N[1] - 1 /\ s = Some(1)

\* The container's permutations of layers 0 .. l-1 applied in propagation order.
RECURSIVE Routed(_, _, _)
Routed(x, perms, l) ==
    IF l = 0 THEN x
    ELSE LET y == Routed(x, perms, l - 1)
         IN  IF perms[l - 1] = None THEN y ELSE Take(y, perms[l - 1][1])

\* C4: p1 and p2 of every layer are bijections on 0..N-1 and inverses of each
\* other, phi_out is indexed by physical mode after every layer step, and the
\* permutations composed in propagation order never duplicate or drop a mode.
C4_PermutationsInverse ==
    /\ LayerSolved =>
         /\ IsBijection(p1[1], N[1])
         /\ IsBijection(p2[1], N[1])
         /\ Take(Take(Identity(N[1]), p1[1]), p2[1]) = Identity(N[1])
         /\ \A m \in 0..(N[1] - 1) :
               /\ phi_out[1][m].layer = JustSolved
               /\ p1[1][phi_out[1][m].port] = m
    /\ self_perm # None =>
         \A l \in 0..N[1] :
            /\ l < N[1] /\ self_perm[1][l] # None => IsBijection(self_perm[1][l][1], N[1])
            /\ IsBijection(Routed(Identity(N[1]), self_perm[1], l), N[1])

C4_Witness == pc = "done" /\ N = Some(8) /\ p1 # None /\ self_perm[1][3] # None

\* C5: a size that is not 2^k with k >= 1 fails with the configuration error of
\* the argument checks, before anything is built or written.
C5_NonPowerOfTwoRejected ==
    (OneOfNAndM /\ ~(IsPow2(AskedSize) /\ AskedSize >= 2) /\ pc # "entry") =>
       /\ pc = "error"
       /\ err = Some("AssertionError")
       /\ NothingBuilt

\* C6: the permutations stored in the container are those the layer loop
\* recomputes: perm[i] = p1 and perm[i+1] = p2 for odd i, p1 and p2 are the
\* identity for even i, and perm[0] and perm[N-1] are empty.
C6_StoredTopologyAgrees ==
    LayerSolved =>
      LET l == JustSolved
          n == N[1]
      IN  /\ Size(self_perm[1]) = n
          /\ self_perm[1][0] = None
          /\ self_perm[1][n - 1] = None
          /\ IF l % 2 = 1
             THEN self_perm[1][l] = p1 /\ self_perm[1][l + 1] = p2
             ELSE p1[1] = Identity(n) /\ p2[1] = Identity(n)

C6_Witness == pc = "solve" /\ N = Some(8) /\ i = 6 /\ self_perm[1][5] = p1

\* C7: p_splitter reaches the container unchanged and every call of the
\* crossing made for layer i is given the splitter imperfections of layer i
\* when they are nonzero.
C7_SplitterPassedToCrossing ==
    /\ self_p_splitter # None => self_p_splitter[1] = arg.p_splitter
    /\ \A q \in 1..Len(xcalls) :
          arg.p_splitter[xcalls[q].layer] # 0 =>
             xcalls[q].p_splitter = Some(arg.p_splitter[xcalls[q].layer])

C9_SolveOrderReversesDiscovery ==
    pc = "done" /\ arg.M # None =>
       /\ SolveOrder = [k \in 1..(N[1] - 1) |-> k - 1]
       /\ SolveOrder = Reversed(discovery)

\* C9 amended: the layers are solved in increasing order, one inverse solve per
\* layer, each layer absorbing the residual phases of the layer before it; the
\* decomposition first writes the middle layer N/2-1 (the largest stride) and
\* first writes every other layer after the adjacent layer of twice its stride.
C9_SolveOrderAndDiscovery ==
    /\ pc \in {"solve", "done"} /\ arg.M # None =>
         /\ SolveOrder = [k \in 1..i |-> k - 1]
         /\ Len(absorbed) = i
         /\ \A k \in 1..i : \A q \in DOMAIN absorbed[k] : absorbed[k][q].layer = k - 2
         /\ (pc = "done" => i = N[1] - 1)
    /\ discovery # <<>> =>
         /\ discovery[1] = N[1] \div 2 - 1
         /\ \A k \in 2..Len(discovery) : \E h \in 1..(k - 1) :
               /\ LowBitStride(discovery[h]) = 2 * LowBitStride(discovery[k])
               /\ discovery[h] - discovery[k] \in
                     {LowBitStride(discovery[k]), 0 - LowBitStride(discovery[k])}

C9_Witness == pc = "done" /\ N = Some(8) /\ discovery = <<3, 1, 0, 2, 5, 4, 6>>

\* C10: an invocation on the n modes a .. a+n-1 writes, for n > 2, its n/2
\* blocks at one layer of stride n/2, block k at the crossing whose two ports
\* p1 gives to modes a+k and a+k+n/2; for n = 2 it writes crossing a/2 of a
\* layer of stride 1; and when the decomposition ends every entry has been
\* written exactly once.
C10_WritesMatchTopology ==
    /\ \A c \in calls :
          LET t == SolverP1(N[1], c.layer)
          IN  IF c.n > 2
              THEN /\ SolverStride(c.layer) = c.n \div 2
                   /\ Cardinality(c.crossings) = c.n \div 2
                   /\ \A k \in 0..(c.n \div 2 - 1) :
                         \E j \in c.crossings :
                            /\ t[2 * j] = c.a + k
                            /\ t[2 * j + 1] = c.a + k + c.n \div 2
                            /\ Dij[1][c.layer][j].hist = <<[U |-> c.U, k |-> k]>>
              ELSE /\ SolverStride(c.layer) = 1
                   /\ c.crossings = {c.a \div 2}
                   /\ t[2 * (c.a \div 2)] = c.a /\ t[2 * (c.a \div 2) + 1] = c.a + 1
                   /\ Dij[1][c.layer][c.a \div 2].hist = <<[U |-> c.U, k |-> 0]>>
    /\ Decomposed =>
         \A l \in 0..(N[1] - 2) : \A j \in 0..(N[1] \div 2 - 1) : Len(Dij[1][l][j].hist) = 1

C10_Witness ==
    /\ Decomposed /\ N = Some(8) /\ Cardinality(calls) = 21
    /\ \E c \in calls : c.n = 4 /\ c.a = 4 /\ c.layer = 5

====
